---- MODULE Spec2Model ----
(***************************************************************************)
(* Courses API (src/main.py, src/schemas.py): the handlers list_courses,   *)
(* get_filters and seed_courses over the "course" collection, with the     *)
(* query builder, the pagination arithmetic and serialize_course.          *)
(*                                                                         *)
(* Encodings.  An Optional value is None (the empty tuple) or Some(v) (the *)
(* one-element tuple).  Ratings are kept in tenths (4.2 is 42), prices in  *)
(* whole currency units (every price the seed produces is integral).       *)
(* Texts searched by q are sequences of one-character strings.  The store  *)
(* applies each call (count_documents, find, distinct, insert_many) as one *)
(* step.                                                                   *)
(***************************************************************************)
EXTENDS Integers, Sequences, FiniteSets, TLC

VARIABLES db, now, coll, spc, sops, calls, log,
          rpc, rreq, rplan, rtotal, rresp, rops, rseen,
          stage, arg, res

vars == <<db, now, coll, spc, sops, calls, log,
          rpc, rreq, rplan, rtotal, rresp, rops, rseen,
          stage, arg, res>>

storeVars == <<db, now, coll>>
seedVars == <<spc, sops, calls, log>>
readVars == <<rpc, rreq, rplan, rtotal, rresp, rops, rseen>>
pureVars == <<stage, arg, res>>

(* ------------------------------ bounds -------------------------------- *)

NSeed == 2
MaxCalls == 3
MaxPage == 3
MaxTotal == 25

(* --------------------------- Python values ---------------------------- *)

None == <<>>
Some(v) == <<v>>
IsSet(o) == o # None
Val(o) == o[1]

Min(a, b) == IF a <= b THEN a ELSE b
Max(a, b) == IF a >= b THEN a ELSE b

NoDb == "none"
Seeders == 1..NSeed

(* ----------------------------- schemas.py ----------------------------- *)

MaxRating == 50

CourseValid(c) ==
    /\ c.rating >= 0 /\ c.rating <= MaxRating
    /\ c.rating_count >= 0 /\ c.students >= 0 /\ c.lessons >= 0
    /\ c.price >= 0
    /\ (IsSet(c.old_price) => Val(c.old_price) >= 0)

(* --------------------------- seed generator --------------------------- *)

base_tags == << <<"Design", "UX">>, <<"Programming", "JavaScript">>, <<"Marketing">>,
                <<"Business">>, <<"Data">>, <<"Photography">>, <<"Health">>, <<"Music">>,
                <<"Finance">>, <<"AI">>, <<"Cloud">>, <<"Product">> >>
categories == <<"Design", "Development", "Marketing", "Business", "Data Science",
                "Photography", "Health & Fitness", "Music", "Finance", "AI", "Cloud",
                "Product">>
levels == <<"Beginner", "Intermediate", "Advanced">>

SeedFirst == 1
SeedStop == 25
SeedRange == SeedFirst..(SeedStop - 1)

\* every 4th record free
SeedIsFreeEveryFourth(i) == i % 4 = 0

SeedIsFree(i) == i % 5 = 0
SeedPrice(i) == IF SeedIsFree(i) THEN 0 ELSE 9 + (i % 6) * 10
SeedOldPrice(i) == IF SeedIsFree(i) \/ i % 3 # 0 THEN None ELSE Some(SeedPrice(i) + 20)
SeedRating(i) == IF ~SeedIsFree(i) THEN 35 + (i % 15) ELSE 42

SeedCourse(i) ==
    LET cat == categories[(i % Len(categories)) + 1]
        lvl == levels[(i % Len(levels)) + 1]
    IN  [ title |-> "Course " \o ToString(i) \o ": Master " \o cat \o " " \o lvl,
          slug |-> "course-" \o ToString(i),
          description |-> "Learn with hands-on projects, quizzes and expert guidance.",
          category |-> cat,
          level |-> lvl,
          instructor_name |-> "Instructor " \o ToString(i),
          thumbnail |-> "https://picsum.photos/seed/course" \o ToString(i) \o "/600/400",
          rating |-> SeedRating(i),
          rating_count |-> 50 + i * 3,
          students |-> 200 + i * 20,
          lessons |-> 10 + (i % 15),
          language |-> "English",
          duration |-> ToString(6 + (i % 8)) \o "h " \o ToString((i * 7) % 60) \o "m",
          is_free |-> SeedIsFree(i),
          price |-> SeedPrice(i),
          old_price |-> SeedOldPrice(i),
          tags |-> base_tags[(i % Len(base_tags)) + 1] ]

\* sample: the Course objects of the loop, in loop order
SeedSample == [k \in 1..Cardinality(SeedRange) |-> SeedCourse(SeedFirst + k - 1)]

\* os.getenv("NOW") or None
EnvNow(env) == IF IsSet(env) /\ Val(env) # "" THEN env ELSE None

\* docs: model_dump of each Course, stamped with created_at / updated_at
SeedDocs(env) ==
    [k \in DOMAIN SeedSample |->
        SeedSample[k] @@ [created_at |-> EnvNow(env), updated_at |-> EnvNow(env)]]

\* the store gives each inserted document a fresh ObjectId
\* identity values: an ObjectId, a Python int, a Python str
ObjectId(n) == [t |-> "oid", v |-> n]
IntId(n) == [t |-> "int", n |-> n]
StrId(x) == [t |-> "str", s |-> x]

\* a store call that writes only the first document of the batch
InsertFirst(c, docs) ==
    c \o [k \in {n \in DOMAIN docs : n = 1} |-> docs[k] @@ [_id |-> ObjectId(Len(c) + k)]]

InsertMany(c, docs) ==
    c \o [k \in DOMAIN docs |-> docs[k] @@ [_id |-> ObjectId(Len(c) + k)]]

(* ---------------------------- query builder --------------------------- *)

\* Python truthiness of an Optional[str]: q is a text, the others plain strings
TextTruthy(o) == IsSet(o) /\ Val(o) # <<>>
StrTruthy(o) == IsSet(o) /\ Val(o) # ""

Entry(cond, key, value) == IF cond THEN key :> value ELSE <<>>

RegexClause(field, q) == [field |-> field, regex |-> q, options |-> "i"]

PriceFilter(p) ==
    Entry(IsSet(p.min_price), "$gte", Val(p.min_price))
        @@ Entry(IsSet(p.max_price), "$lte", Val(p.max_price))

BuildFilter(p) ==
    Entry(TextTruthy(p.q), "$or",
          << RegexClause("title", Val(p.q)),
             RegexClause("description", Val(p.q)),
             RegexClause("instructor_name", Val(p.q)) >>)
      @@ Entry(StrTruthy(p.category), "category", Val(p.category))
      @@ Entry(StrTruthy(p.level), "level", Val(p.level))
      @@ Entry(IsSet(p.is_free), "is_free", Val(p.is_free))
      @@ Entry(StrTruthy(p.tag), "tags", "$in" :> <<Val(p.tag)>>)
      @@ Entry(IsSet(p.min_price) \/ IsSet(p.max_price), "price", PriceFilter(p))
      @@ Entry(IsSet(p.min_rating), "rating", "$gte" :> Val(p.min_rating))

SortDefault == <<"students", -1>>

sort_map == [ popular |-> <<"students", -1>>,
              rating |-> <<"rating", -1>>,
              new |-> <<"created_at", -1>>,
              price_asc |-> <<"price", 1>>,
              price_desc |-> <<"price", -1>> ]

\* a lookup whose fallback is not the popular pair
SortSelectOtherDefault(sort) ==
    IF IsSet(sort) /\ Val(sort) \in DOMAIN sort_map THEN sort_map[Val(sort)]
    ELSE <<"created_at", -1>>

\* sort_map.get(sort, ("students", -1))
SortSelect(sort) ==
    IF IsSet(sort) /\ Val(sort) \in DOMAIN sort_map THEN sort_map[Val(sort)] ELSE SortDefault

(* ------------------------- the store's matching ----------------------- *)

Range(s) == {s[k] : k \in DOMAIN s}

LowerOf == [c \in {"A", "B"} |-> IF c = "A" THEN "a" ELSE "b"]
Lower(c) == IF c \in DOMAIN LowerOf THEN LowerOf[c] ELSE c

\* one pattern character against one text character: "." is the wildcard
CharMatch(pc, tc, options) ==
    \/ pc = "."
    \/ IF options = "i" THEN Lower(pc) = Lower(tc) ELSE pc = tc

\* an unanchored regular-expression search of pattern in text
RegexSearch(pattern, text, options) ==
    \E off \in 0..(Len(text) - Len(pattern)) :
        \A j \in 1..Len(pattern) : CharMatch(pattern[j], text[off + j], options)

RangeMatch(value, cond) ==
    /\ ("$gte" \in DOMAIN cond => value >= cond["$gte"])
    /\ ("$lte" \in DOMAIN cond => value <= cond["$lte"])

ClauseMatch(doc, key, cond) ==
    CASE key = "$or" ->
            \E n \in DOMAIN cond :
                RegexSearch(cond[n].regex, doc[cond[n].field], cond[n].options)
      [] key = "tags" -> \E t \in Range(cond["$in"]) : t \in Range(doc.tags)
      [] key \in {"price", "rating"} -> RangeMatch(doc[key], cond)
      [] OTHER -> doc[key] = cond

Matches(doc, filters) == \A key \in DOMAIN filters : ClauseMatch(doc, key, filters[key])

Matching(c, filters) == {k \in DOMAIN c : Matches(c[k], filters)}

CountDocuments(c, filters) == Cardinality(Matching(c, filters))

\* BSON order of created_at: null sorts before every string; the strings
\* written by one process are all the same NOW
SortKey(doc, field) ==
    IF field = "created_at" THEN (IF IsSet(doc.created_at) THEN 1 ELSE 0) ELSE doc[field]

\* the sort keys of the documents, signed by the direction
SortKeys(c, field, dir) == SubSeq([k \in DOMAIN c |-> dir * SortKey(c[k], field)], 1, Len(c))

\* a before b under the keys; equal keys fall back on the tie order, which
\* the store does not fix
Before(keys, a, b, tie) ==
    \/ keys[a] < keys[b]
    \/ keys[a] = keys[b] /\ (IF tie = "natural" THEN a < b ELSE a > b)

\* the matching positions, in the order of the sort
SortIdx(c, S, field, dir, tie) ==
    LET keys == SortKeys(c, field, dir)
        Ahead(a, b) == Before(keys, a, b, tie)
        Chosen(k) == k \in S
    IN  SortSeq(SelectSeq([k \in DOMAIN c |-> k], Chosen), Ahead)

TieOrders == {"natural", "reverse"}

\* a cursor that is never limited
FindNoLimit(c, filters, field, dir, skip, limit, tie) ==
    LET order == SortIdx(c, Matching(c, filters), field, dir, tie)
        n == Max(0, Len(order) - skip)
    IN  [p \in 1..n |-> c[order[skip + p]]]

\* find(filters).sort(field, dir).skip(skip).limit(limit); limit 0 is no limit
Find(c, filters, field, dir, skip, limit, tie) ==
    LET order == SortIdx(c, Matching(c, filters), field, dir, tie)
        rest == Max(0, Len(order) - skip)
        n == IF limit = 0 THEN rest ELSE Min(limit, rest)
    IN  [p \in 1..n |-> c[order[skip + p]]]

Distinct(c, field) ==
    IF field = "tags" THEN UNION {Range(c[k].tags) : k \in DOMAIN c}
    ELSE {c[k][field] : k \in DOMAIN c}

\* the strings of the collection in Python's string order
StrOrder == <<"AI", "Advanced", "Beginner", "Business", "Cloud", "Data", "Data Science",
              "Design", "Development", "Finance", "Health", "Health & Fitness",
              "Intermediate", "JavaScript", "Marketing", "Music", "Photography",
              "Product", "Programming", "UX">>

RECURSIVE Pick(_, _)
Pick(seq, S) ==
    IF seq = <<>> THEN <<>>
    ELSE (IF Head(seq) \in S THEN <<Head(seq)>> ELSE <<>>) \o Pick(Tail(seq), S)

Sorted(S) == Pick(StrOrder, S)

(* ------------------------ pagination, serializer ---------------------- *)

\* an offset counted from page, not page - 1
SkipFromPage(page, page_size) == page * page_size

Skip(page, page_size) == (page - 1) * page_size

\* a page count that rounds down
TotalPagesFloor(total, page_size) ==
    IF page_size # 0 THEN total \div page_size ELSE 1

TotalPages(total, page_size) ==
    IF page_size # 0 THEN (total + page_size - 1) \div page_size ELSE 1

\* Python truthiness and str() of an identity value
Truthy(x) ==
    CASE x.t = "oid" -> TRUE
      [] x.t = "int" -> x.n # 0
      [] x.t = "str" -> x.s # ""
      [] OTHER -> FALSE

PyStr(x) ==
    CASE x.t = "oid" -> "oid" \o ToString(x.v)
      [] x.t = "int" -> ToString(x.n)
      [] x.t = "str" -> x.s
      [] OTHER -> "None"

serialize_course(doc) ==
    IF "_id" \in DOMAIN doc /\ Truthy(doc._id)
    THEN [k \in DOMAIN doc \ {"_id"} |-> doc[k]] @@ ("id" :> PyStr(doc._id))
    ELSE doc

(* --------------------------- request validation ---------------------- *)

MinPage == 1
MinPageSize == 1
MaxPageSize == 60
MaxMinRating == 50

\* constraints that let page_size = 0 through
ValidNoPageSizeFloor(p) ==
    /\ (IsSet(p.min_price) => Val(p.min_price) >= 0)
    /\ (IsSet(p.max_price) => Val(p.max_price) >= 0)
    /\ (IsSet(p.min_rating) => Val(p.min_rating) >= 0 /\ Val(p.min_rating) <= MaxMinRating)
    /\ p.page >= MinPage
    /\ p.page_size <= MaxPageSize

\* the Query(...) constraints of list_courses, applied before the handler body
Valid(p) ==
    /\ (IsSet(p.min_price) => Val(p.min_price) >= 0)
    /\ (IsSet(p.max_price) => Val(p.max_price) >= 0)
    /\ (IsSet(p.min_rating) => Val(p.min_rating) >= 0 /\ Val(p.min_rating) <= MaxMinRating)
    /\ p.page >= MinPage
    /\ p.page_size >= MinPageSize /\ p.page_size <= MaxPageSize

DefaultRequest ==
    [ q |-> None, category |-> None, level |-> None, is_free |-> None,
      min_price |-> None, max_price |-> None, min_rating |-> None, tag |-> None,
      sort |-> Some("popular"), page |-> 1, page_size |-> 9 ]

SortInputs == {None, Some("popular"), Some("rating"), Some("new"), Some("price_asc"),
               Some("price_desc"), Some("unknownvalue"), Some("")}

\* the requests sent while no other call is in flight
ListRequests ==
    {[DefaultRequest EXCEPT !.page = pg, !.page_size = ps] :
        pg \in 0..MaxPage, ps \in {0, 1, 9, 25, 60, 61}}
    \cup {[DefaultRequest EXCEPT !.sort = s] : s \in SortInputs}
    \cup {[DefaultRequest EXCEPT !.is_free = f, !.min_price = lo, !.max_price = hi] :
            f \in {None, Some(TRUE)}, lo \in {None, Some(-1), Some(20)},
            hi \in {None, Some(-1), Some(50)}}
    \cup {[DefaultRequest EXCEPT !.min_rating = r, !.page_size = 60] :
            r \in {Some(-1), Some(45), Some(51)}}
    \cup {[DefaultRequest EXCEPT !.level = Some("Beginner"), !.sort = Some("price_asc"),
                                 !.page = 2, !.page_size = 1],
          [DefaultRequest EXCEPT !.category = Some("Design"), !.tag = Some("UX")]}

\* the requests sent while seed calls are running
RacingRequests ==
    {[DefaultRequest EXCEPT !.page = pg, !.page_size = ps] :
        pg \in {0, 1, MaxPage}, ps \in {0, 9, 61}}
    \cup {[DefaultRequest EXCEPT !.is_free = Some(TRUE), !.min_price = lo,
                                 !.sort = Some("price_asc"), !.page_size = 1] :
            lo \in {None, Some(-1)}}
    \cup {[DefaultRequest EXCEPT !.max_price = hi, !.min_rating = r] :
            hi \in {Some(-1), Some(50)}, r \in {Some(-1), Some(51)}}

(* ------------------------------ responses ----------------------------- *)

Http500 == [status |-> 500, body |-> [detail |-> "Database not configured"]]
Http422 == [status |-> 422, body |-> [detail |-> "validation error"]]
Http200(body) == [status |-> 200, body |-> body]

(* ------------------------------- Init --------------------------------- *)

ReadIdle ==
    /\ rpc = "idle" /\ rreq = None /\ rplan = None /\ rtotal = 0
    /\ rresp = None /\ rops = 0 /\ rseen = None

SeedIdle ==
    /\ spc = [s \in Seeders |-> "idle"]
    /\ sops = [s \in Seeders |-> 0]
    /\ calls = 0
    /\ log = <<>>

Init ==
    /\ db \in {"courses", NoDb}
    /\ now \in {None, Some("2024-01-01T00:00:00")}
    /\ coll = <<>>
    /\ SeedIdle
    /\ ReadIdle
    /\ stage = "off" /\ arg = None /\ res = None

\* no handler running: the state around a call of one of the pure functions
NoServer ==
    /\ db = NoDb /\ now = None /\ coll = <<>>
    /\ SeedIdle
    /\ ReadIdle

(* ---------------------------- seed_courses ---------------------------- *)

SeedEntry(resp, ops) == [resp |-> resp, ops |-> ops]

\* lines 155-158: the call arrives; without a store handle it ends at once
SeedStart(s) ==
    /\ spc[s] = "idle"
    /\ calls < MaxCalls
    /\ calls' = calls + 1
    /\ sops' = [sops EXCEPT ![s] = 0]
    /\ IF db = NoDb
       THEN /\ log' = Append(log, SeedEntry(Http500, 0))
            /\ spc' = spc
       ELSE /\ spc' = [spc EXCEPT ![s] = "count"]
            /\ log' = log
    /\ UNCHANGED <<storeVars, readVars, pureVars>>

\* a check that never finds the collection seeded
SeedCheckBlind(s) ==
    /\ spc[s] = "count"
    /\ sops' = [sops EXCEPT ![s] = @ + 1]
    /\ spc' = [spc EXCEPT ![s] = "insert"]
    /\ log' = log
    /\ UNCHANGED <<storeVars, calls, readVars, pureVars>>

\* lines 159-160: count_documents({}) > 0
SeedCheck(s) ==
    /\ spc[s] = "count"
    /\ sops' = [sops EXCEPT ![s] = @ + 1]
    /\ IF CountDocuments(coll, <<>>) > 0
       THEN /\ spc' = [spc EXCEPT ![s] = "idle"]
            /\ log' = Append(log, SeedEntry(
                        Http200([status |-> "ok", message |-> "Courses already seeded"]),
                        sops'[s]))
       ELSE /\ spc' = [spc EXCEPT ![s] = "insert"]
            /\ log' = log
    /\ UNCHANGED <<storeVars, calls, readVars, pureVars>>

\* lines 162-200: build the sample, insert_many, report len(docs)
SeedInsert(s) ==
    /\ spc[s] = "insert"
    /\ \A k \in DOMAIN SeedSample : CourseValid(SeedSample[k])
    /\ LET docs == SeedDocs(now)
       IN  /\ coll' = InsertMany(coll, docs)
           /\ sops' = [sops EXCEPT ![s] = @ + 1]
           /\ log' = Append(log, SeedEntry(
                        Http200([status |-> "ok", inserted |-> Len(docs)]), sops'[s]))
    /\ spc' = [spc EXCEPT ![s] = "idle"]
    /\ UNCHANGED <<db, now, calls, readVars, pureVars>>

(* ---------------------------- list_courses ---------------------------- *)

\* lines 73-121: validation, the handle check, the filter and the sort key
ListStart(p) ==
    /\ rpc = "idle"
    /\ rreq' = p
    /\ rops' = 0
    /\ rtotal' = 0
    /\ rseen' = None
    /\ IF ~Valid(p)
       THEN rpc' = "done" /\ rresp' = Http422 /\ rplan' = None
       ELSE IF db = NoDb
       THEN rpc' = "done" /\ rresp' = Http500 /\ rplan' = None
       ELSE /\ rpc' = "count"
            /\ rresp' = None
            /\ rplan' = [filters |-> BuildFilter(p), sort |-> SortSelect(p.sort)]
    /\ UNCHANGED <<storeVars, seedVars, pureVars>>

\* lines 123-125: count_documents(filters)
ListCount ==
    /\ rpc = "count"
    /\ rtotal' = CountDocuments(coll, rplan.filters)
    /\ rops' = rops + 1
    /\ rseen' = [lenAtCount |-> Len(coll)]
    /\ rpc' = "find"
    /\ UNCHANGED <<storeVars, seedVars, rreq, rplan, rresp, pureVars>>

\* lines 127-139: find, sort, skip, limit, serialize, total_pages, the envelope
ListFind(tie) ==
    /\ rpc = "find"
    /\ LET skip == Skip(rreq.page, rreq.page_size)
           cursor == Find(coll, rplan.filters, rplan.sort[1], rplan.sort[2],
                          skip, rreq.page_size, tie)
           items == [k \in DOMAIN cursor |-> serialize_course(cursor[k])]
       IN  /\ rresp' = Http200([ items |-> items, total |-> rtotal, page |-> rreq.page,
                                 page_size |-> rreq.page_size,
                                 total_pages |-> TotalPages(rtotal, rreq.page_size) ])
           /\ rseen' = rseen @@ [ lenAtFind |-> Len(coll),
                                  matchAtFind |-> Matching(coll, rplan.filters),
                                  skip |-> skip ]
    /\ rops' = rops + 1
    /\ rpc' = "done"
    /\ UNCHANGED <<storeVars, seedVars, rreq, rplan, rtotal, pureVars>>

(* ----------------------------- get_filters ---------------------------- *)

\* lines 143-146
FiltersStart ==
    /\ rpc = "idle"
    /\ rreq' = None /\ rplan' = None /\ rtotal' = 0 /\ rseen' = None
    /\ rops' = 0
    /\ IF db = NoDb
       THEN rpc' = "done" /\ rresp' = Http500
       ELSE rpc' = "categories" /\ rresp' = None
    /\ UNCHANGED <<storeVars, seedVars, pureVars>>

\* line 147
FiltersCategories ==
    /\ rpc = "categories"
    /\ rplan' = [categories |-> Sorted(Distinct(coll, "category"))]
    /\ rops' = rops + 1
    /\ rpc' = "levels"
    /\ UNCHANGED <<storeVars, seedVars, rreq, rtotal, rresp, rseen, pureVars>>

\* line 148
FiltersLevels ==
    /\ rpc = "levels"
    /\ rplan' = rplan @@ [levels |-> Sorted(Distinct(coll, "level"))]
    /\ rops' = rops + 1
    /\ rpc' = "tags"
    /\ UNCHANGED <<storeVars, seedVars, rreq, rtotal, rresp, rseen, pureVars>>

\* lines 149-150
FiltersTags ==
    /\ rpc = "tags"
    /\ rresp' = Http200(rplan @@ [tags |-> Sorted(Distinct(coll, "tags"))])
    /\ rops' = rops + 1
    /\ rpc' = "done"
    /\ UNCHANGED <<storeVars, seedVars, rreq, rplan, rtotal, rseen, pureVars>>

\* the response is delivered and the client may send its next request
ReadReturn ==
    /\ rpc = "done"
    /\ rpc' = "idle" /\ rreq' = None /\ rplan' = None /\ rtotal' = 0
    /\ rresp' = None /\ rops' = 0 /\ rseen' = None
    /\ UNCHANGED <<storeVars, seedVars, pureVars>>

(* --------------------------- specifications --------------------------- *)

Next ==
    \/ \E s \in Seeders : SeedStart(s)
    \/ \E s \in Seeders : SeedCheck(s)
    \/ \E s \in Seeders : SeedInsert(s)
    \/ \E p \in RacingRequests : ListStart(p)
    \/ ListCount
    \/ \E tie \in TieOrders : ListFind(tie)
    \/ FiltersStart
    \/ FiltersCategories
    \/ FiltersLevels
    \/ FiltersTags
    \/ ReadReturn

Spec == Init /\ [][Next]_vars

\* calls that do not overlap: a call starts only when no other is in flight
Quiet == rpc \in {"idle", "done"} /\ \A s \in Seeders : spc[s] = "idle"

NextSeq ==
    \/ \E s \in Seeders : Quiet /\ SeedStart(s)
    \/ \E s \in Seeders : SeedCheck(s)
    \/ \E s \in Seeders : SeedInsert(s)
    \/ \E p \in ListRequests : Quiet /\ ListStart(p)
    \/ ListCount
    \/ \E tie \in TieOrders : ListFind(tie)
    \/ Quiet /\ FiltersStart
    \/ FiltersCategories
    \/ FiltersLevels
    \/ FiltersTags
    \/ ReadReturn

SpecSeq == Init /\ [][NextSeq]_vars

(* ------------------ the query builder on its own ---------------------- *)

Texts == {<<"b">>, <<"b", "A">>}

FilterInputs ==
    [ q : {None, Some(<<>>), Some(<<"a">>), Some(<<".">>)},
      category : {None, Some(""), Some("Design")},
      level : {None, Some("Beginner")},
      is_free : {None, Some(TRUE), Some(FALSE)},
      min_price : {None, Some(20)},
      max_price : {None, Some(50)},
      min_rating : {None, Some(42)},
      tag : {None, Some(""), Some("UX")},
      sort : {Some("popular")}, page : {1}, page_size : {9} ]

FilterDocs ==
    [ title : Texts, description : {<<"b">>}, instructor_name : {<<"b">>, <<"a">>},
      category : {"Design", "AI"}, level : {"Beginner", "Advanced"},
      is_free : {FALSE}, price : {15, 29, 59}, rating : {35, 49},
      tags : {<<"Design", "UX">>, <<"AI">>} ]
    \cup
    [ title : Texts, description : {<<"b">>}, instructor_name : {<<"b">>},
      category : {"Design"}, level : {"Beginner"},
      is_free : {TRUE}, price : {0}, rating : {42},
      tags : {<<"Design", "UX">>, <<>>} ]

InitFilter ==
    /\ NoServer
    /\ stage = "filter"
    /\ arg \in [p : FilterInputs, doc : FilterDocs]
    /\ res = None

\* lines 89-112, and the store's evaluation of the filter on one document
FilterStep ==
    /\ stage = "filter"
    /\ stage' = "filtered"
    /\ LET filters == BuildFilter(arg.p)
       IN  res' = [filters |-> filters, accepted |-> Matches(arg.doc, filters)]
    /\ UNCHANGED <<storeVars, seedVars, readVars, arg>>

NextFilter == FilterStep

SpecFilter == InitFilter /\ [][NextFilter]_vars

(* ------------- the sort key and the page arithmetic on their own ------- *)

InitPlan ==
    /\ NoServer
    /\ stage = "plan"
    /\ arg \in [ total : 0..MaxTotal, page : MinPage..MaxPage,
                 page_size : MinPageSize..MaxPageSize, sort : SortInputs ]
    /\ res = None

\* lines 114-135 without the store calls
PlanStep ==
    /\ stage = "plan"
    /\ stage' = "planned"
    /\ res' = [ sort |-> SortSelect(arg.sort),
                skip |-> Skip(arg.page, arg.page_size),
                total_pages |-> TotalPages(arg.total, arg.page_size) ]
    /\ UNCHANGED <<storeVars, seedVars, readVars, arg>>

NextPlan == PlanStep

SpecPlan == InitPlan /\ [][NextPlan]_vars

(* ----------------------- serialize_course on its own ------------------ *)

IdValues == {ObjectId(1), ObjectId(2), IntId(0), IntId(7), StrId(""), StrId("abc")}

StoredDocs ==
    [ _id : IdValues, title : {"Course 1", "Course 2", ""}, price : {0, 9, 19},
      is_free : BOOLEAN, tags : {<<>>, <<"AI">>} ]

InitSerialize ==
    /\ NoServer
    /\ stage = "doc"
    /\ arg \in StoredDocs
    /\ res = None

SerializeStep ==
    /\ stage = "doc"
    /\ stage' = "serialized"
    /\ res' = serialize_course(arg)
    /\ UNCHANGED <<storeVars, seedVars, readVars, arg>>

NextSerialize == SerializeStep

SpecSerialize == InitSerialize /\ [][NextSerialize]_vars

(* ======================= properties of the claims ===================== *)

\* text contains s as a substring, letter case ignored
ContainsCI(text, s) ==
    \E off \in 0..(Len(text) - Len(s)) :
        \A j \in 1..Len(s) : Lower(s[j]) = Lower(text[off + j])

\* the conjunction of the supplied conditions, as section 4.1 words them
Wanted(p, doc) ==
    /\ (IsSet(p.q) =>
            \/ ContainsCI(doc.title, Val(p.q))
            \/ ContainsCI(doc.description, Val(p.q))
            \/ ContainsCI(doc.instructor_name, Val(p.q)))
    /\ (IsSet(p.category) => doc.category = Val(p.category))
    /\ (IsSet(p.level) => doc.level = Val(p.level))
    /\ (IsSet(p.is_free) => doc.is_free = Val(p.is_free))
    /\ (IsSet(p.tag) => \E n \in DOMAIN doc.tags : doc.tags[n] = Val(p.tag))
    /\ (IsSet(p.min_price) => doc.price >= Val(p.min_price))
    /\ (IsSet(p.max_price) => doc.price <= Val(p.max_price))
    /\ (IsSet(p.min_rating) => doc.rating >= Val(p.min_rating))

\* C2: for every combination of absent and supplied filter inputs, the filter
\* list_courses builds accepts a document exactly when the document meets
\* every supplied condition (q as a substring of title, description or
\* instructor_name; category, level, is_free by equality; tag by membership;
\* min_price <= price <= max_price; rating >= min_rating), and with every
\* input absent it accepts every document.
C2_FilterIsConjunction ==
    stage = "filtered" => (res.accepted <=> Wanted(arg.p, arg.doc))

\* C2, the part the code keeps: when every supplied text input is non-empty
\* and q holds no regular-expression metacharacter, the filter is that
\* conjunction.
C2_PlainInputs ==
    /\ \A f \in {"category", "level", "tag"} : IsSet(arg.p[f]) => Val(arg.p[f]) # ""
    /\ IsSet(arg.p.q) => \A j \in DOMAIN Val(arg.p.q) : Val(arg.p.q)[j] # "."

C2_FilterIsConjunctionOnPlainInputs ==
    (stage = "filtered" /\ C2_PlainInputs) => (res.accepted <=> Wanted(arg.p, arg.doc))

\* the least n with n * page_size >= total
Ceil(total, page_size) ==
    CHOOSE n \in 0..total : n * page_size >= total /\ (n - 1) * page_size < total

\* C3: for every total >= 0, page >= 1 and page_size in 1..60 the skip is
\* (page - 1) * page_size, never clamped against total, and total_pages is
\* ceil(total / page_size): 0 for total = 0, and otherwise
\* total_pages * page_size >= total > (total_pages - 1) * page_size.
C3_PageArithmetic ==
    stage = "planned" =>
        /\ res.skip = (arg.page - 1) * arg.page_size
        /\ res.total_pages = Ceil(arg.total, arg.page_size)
        /\ (arg.total = 0 => res.total_pages = 0)
        /\ (arg.total > 0 =>
                /\ res.total_pages * arg.page_size >= arg.total
                /\ arg.total > (res.total_pages - 1) * arg.page_size)

\* a skip that passes the total, and a total that is no multiple of the page size
C3_Witness ==
    /\ stage = "planned"
    /\ arg.total > arg.page_size /\ arg.total % arg.page_size # 0
    /\ res.skip > arg.total
    /\ res.total_pages = (arg.total \div arg.page_size) + 1

\* C4: whatever the identity _id of a stored document, the record
\* serialize_course produces has no key _id, has a key id holding the string
\* form of the identity, and copies every other field unchanged.
C4_NoIdentityLeak ==
    stage = "serialized" =>
        /\ "_id" \notin DOMAIN res
        /\ "id" \in DOMAIN res
        /\ res.id = PyStr(arg._id)
        /\ \A k \in DOMAIN arg \ {"_id"} : k \in DOMAIN res /\ res[k] = arg[k]

\* the table of section 4.1
SortTable(sort) ==
    CASE sort = Some("popular") -> <<"students", -1>>
      [] sort = Some("rating") -> <<"rating", -1>>
      [] sort = Some("new") -> <<"created_at", -1>>
      [] sort = Some("price_asc") -> <<"price", 1>>
      [] sort = Some("price_desc") -> <<"price", -1>>
      [] OTHER -> <<"students", -1>>

\* C5: each sort value selects exactly one (field, direction) pair: popular
\* (students, descending), rating (rating, descending), new (created_at,
\* descending), price_asc (price, ascending), price_desc (price, descending);
\* every other value, an absent one included, selects the pair of popular.
C5_SortTable ==
    stage = "planned" =>
        /\ res.sort = SortTable(arg.sort)
        /\ (arg.sort \notin {Some("rating"), Some("new"), Some("price_asc"), Some("price_desc")}
                => res.sort = SortTable(Some("popular")))

\* an unrecognised sort value has been given the pair of popular
C5_Witness ==
    /\ stage = "planned"
    /\ arg.sort = Some("unknownvalue")
    /\ res.sort = <<"students", -1>>

Inserted(k) == "inserted" \in DOMAIN log[k].resp.body
AlreadySeeded == Http200([status |-> "ok", message |-> "Courses already seeded"])

\* C1: in any sequence of seed_courses calls that do not overlap, starting
\* from the empty collection, the first call reports inserted = 24 and every
\* later call reports "already seeded"; the collection holds 24 documents
\* after every call.
C1_SeedOnce ==
    db # NoDb =>
        /\ \A k \in DOMAIN log :
              IF k = 1 THEN log[k].resp = Http200([status |-> "ok", inserted |-> 24])
              ELSE log[k].resp = AlreadySeeded
        /\ (Len(log) >= 1 => Len(coll) = 24)
        /\ (Len(log) = 0 => Len(coll) = 0)

\* every call of the bound has returned, the later ones without inserting
C1_Witness ==
    /\ db # NoDb
    /\ Len(log) = MaxCalls
    /\ log[Len(log)].resp = AlreadySeeded
    /\ Len(coll) = 24

\* the seed index of the document at position k of the collection
IndexAt(k) == ((k - 1) % 24) + 1

\* C6: the records a seed call inserts are those of the indices 1..24, free
\* exactly when i % 5 = 0 (i = 5, 10, 15, 20, four records), with price 0
\* for the free ones and 9 + (i % 6) * 10 > 0 for the others, rating 4.2 for
\* the free ones and within [0, 5] for all, and old_price, when present,
\* greater than price.
C6_SeedRecords ==
    /\ \A k \in DOMAIN coll :
          LET i == IndexAt(k)
              d == coll[k]
          IN  /\ d.slug = "course-" \o ToString(i)
              /\ d.is_free = (i % 5 = 0)
              /\ d.is_free = (i \in {5, 10, 15, 20})
              /\ (d.is_free => d.price = 0 /\ d.rating = 42)
              /\ (~d.is_free => d.price = 9 + (i % 6) * 10 /\ d.price > 0)
              /\ d.rating >= 0 /\ d.rating <= 50
              /\ (IsSet(d.old_price) => Val(d.old_price) > d.price)
    /\ (Len(coll) >= 24 => Cardinality({k \in 1..24 : coll[k].is_free}) = 4)
    /\ \A k \in DOMAIN log : Inserted(k) => Len(coll) >= 24

\* one seed call has inserted into the empty collection
C6_Witness ==
    /\ Len(coll) = 24
    /\ \E k \in DOMAIN log : Inserted(k)
    /\ \E k \in DOMAIN coll : IsSet(coll[k].old_price)

\* C7: with N seed calls running at once the collection size is always a
\* multiple of 24 between 0 and 24 * N, one batch for each call that reported
\* inserted = 24 and each seed index once for each batch; two calls that both
\* saw the empty collection both insert, which leaves 48 documents.
C7_SizeIsBatches ==
    LET batches == Cardinality({k \in DOMAIN log : Inserted(k)})
    IN  /\ Len(coll) % 24 = 0
        /\ Len(coll) <= 24 * NSeed
        /\ Len(coll) <= 24 * calls
        /\ Len(coll) = 24 * batches
        /\ \A k \in DOMAIN log : Inserted(k) => log[k].resp.body.inserted = 24
        /\ \A i \in 1..24 :
              Cardinality({k \in DOMAIN coll : coll[k].slug = "course-" \o ToString(i)})
                  = batches

\* both calls passed the check before either inserted: 48 documents
C7_Witness ==
    /\ Len(coll) = 48
    /\ Cardinality({k \in DOMAIN log : Inserted(k)}) = 2
    /\ \A i \in 1..24 :
          Cardinality({k \in DOMAIN coll : coll[k].slug = "course-" \o ToString(i)}) = 2

C8_Invalid(p) ==
    \/ p.page < 1
    \/ p.page_size < 1 \/ p.page_size > 60
    \/ IsSet(p.min_rating) /\ (Val(p.min_rating) < 0 \/ Val(p.min_rating) > 50)
    \/ IsSet(p.min_price) /\ Val(p.min_price) < 0
    \/ IsSet(p.max_price) /\ Val(p.max_price) < 0

C8_State ==
    /\ (rreq # None /\ C8_Invalid(rreq)) => (rpc = "done" /\ rresp.status = 422 /\ rops = 0)
    /\ (rpc = "done" /\ rresp.status \in {422, 500}) => rops = 0
    /\ \A k \in DOMAIN log : log[k].resp.status = 500 => log[k].ops = 0
    /\ db = NoDb =>
          /\ coll = <<>>
          /\ rpc \in {"idle", "done"} /\ rops = 0
          /\ (rpc = "done" => rresp.status \in {422, 500})
          /\ (rpc = "done" /\ (rreq = None \/ ~C8_Invalid(rreq)) => rresp.status = 500)
          /\ \A k \in DOMAIN log : log[k].resp.status = 500

C8_Step ==
    (\/ rpc # "done" /\ rpc' = "done" /\ rresp'.status \in {422, 500}
     \/ Len(log') > Len(log) /\ log'[Len(log')].resp.status = 500)
        => coll' = coll

\* C8: a rejected request performs no store operation and leaves the
\* collection unchanged: a list_courses request with page < 1, page_size
\* outside 1..60, min_rating outside [0, 5] or a negative price bound ends in
\* the validation failure before count or find, and list_courses, get_filters
\* and seed_courses without a store handle end in the server error before any
\* count, find, distinct or insert.
C8_RejectedTouchesNothing == [](C8_State) /\ [][C8_Step]_vars

\* page_size = 0 has been rejected while the collection holds the seed
C8_Witness ==
    /\ rpc = "done" /\ rreq # None
    /\ rreq.page_size = 0
    /\ rresp.status = 422 /\ rops = 0
    /\ Len(coll) = 24

\* the key of a document under a pair of the table, smaller first
OrderKey(doc, pair) ==
    pair[2] * (CASE pair[1] = "students" -> doc.students
                 [] pair[1] = "rating" -> doc.rating
                 [] pair[1] = "price" -> doc.price
                 [] OTHER -> IF doc.created_at = None THEN 0 ELSE 1)

ListAnswered == rpc = "done" /\ rreq # None /\ rresp.status = 200

\* item is the record of doc: id for _id, every other field as stored
RecordOf(item, doc) ==
    /\ "_id" \notin DOMAIN item
    /\ item.id = PyStr(doc._id)
    /\ \A f \in DOMAIN doc \ {"_id"} : item[f] = doc[f]

\* C9: with no write during the request, the items of a list_courses response
\* are the documents at positions skip + 1 .. skip + page_size of the
\* matching documents in the order of the selected sort key: at most
\* page_size items, none for a page beyond the last (with the true total and
\* no error); for the 24 seeded documents with no filter, the default sort,
\* page = 2 and page_size = 9 that is skip = 9, the seed indices 15 down to 7,
\* total = 24 and total_pages = 3.
C9_PageOfSortedMatches ==
    ListAnswered =>
        LET docs == SubSeq(coll, 1, rseen.lenAtFind)
            M == {k \in DOMAIN docs : Wanted(rreq, docs[k])}
            pair == SortTable(rreq.sort)
            skip == (rreq.page - 1) * rreq.page_size
            items == rresp.body.items
            At(j) == CHOOSE k \in M : items[j].id = PyStr(docs[k]._id)
            Better(k) == Cardinality({m \in M : OrderKey(docs[m], pair) < OrderKey(docs[k], pair)})
            NotWorse(k) == Cardinality({m \in M : OrderKey(docs[m], pair) <= OrderKey(docs[k], pair)})
        IN  /\ rresp.body.total = Cardinality(M)
            /\ rresp.body.total_pages = Ceil(Cardinality(M), rreq.page_size)
            /\ Len(items) = Min(rreq.page_size, Max(0, Cardinality(M) - skip))
            /\ Len(items) <= rreq.page_size
            /\ (skip >= Cardinality(M) => items = <<>>)
            /\ \A j \in DOMAIN items :
                  /\ \E k \in M : items[j].id = PyStr(docs[k]._id)
                  /\ RecordOf(items[j], docs[At(j)])
                  /\ Better(At(j)) < skip + j
                  /\ skip + j <= NotWorse(At(j))
            /\ \A i, j \in DOMAIN items : i # j => At(i) # At(j)
            /\ (rreq = [DefaultRequest EXCEPT !.page = 2] /\ rseen.lenAtFind = 24) =>
                  /\ rseen.skip = 9
                  /\ Len(items) = 9
                  /\ \A j \in 1..9 : items[j].slug = "course-" \o ToString(16 - j)
                  /\ rresp.body.total = 24
                  /\ rresp.body.total_pages = 3

\* the second page of nine of the seeded collection has been answered
C9_Witness ==
    /\ ListAnswered
    /\ rreq = [DefaultRequest EXCEPT !.page = 2]
    /\ rseen.lenAtFind = 24
    /\ Len(rresp.body.items) = 9
    /\ rresp.body.items[1].slug = "course-15"

\* C10: every list_courses response is consistent with itself, seed calls
\* running or not: the number of items is
\* min(page_size, max(0, total - skip)), so total = 0 never comes with items.
C10_ItemsFollowTotal ==
    ListAnswered =>
        /\ Len(rresp.body.items)
              = Min(rreq.page_size, Max(0, rresp.body.total - rseen.skip))
        /\ (rresp.body.total = 0 => rresp.body.items = <<>>)

\* C10 as the code has it: the number of items is
\* min(page_size, max(0, n - skip)) for n the number of matching documents
\* when find runs; total, counted earlier, is at most n, and equals n when no
\* seed call inserted between the count and the find.
C10_ItemsFollowFind ==
    ListAnswered =>
        LET n == Cardinality({k \in 1..rseen.lenAtFind : Wanted(rreq, coll[k])})
        IN  /\ Len(rresp.body.items) = Min(rreq.page_size, Max(0, n - rseen.skip))
            /\ rresp.body.total <= n
            /\ rresp.body.total_pages = Ceil(rresp.body.total, rreq.page_size)
            /\ (rseen.lenAtCount = rseen.lenAtFind => rresp.body.total = n)

\* a seed call inserted between the count and the find: total 0 with items
C10_Witness ==
    /\ ListAnswered
    /\ rresp.body.total = 0 /\ rresp.body.total_pages = 0
    /\ Len(rresp.body.items) > 0
    /\ rseen.lenAtCount < rseen.lenAtFind

====
